---------------------------- MODULE Spec2Model ----------------------------
(***************************************************************************)
(* tdxplot: the ticket report loader (report.py) and the command-line      *)
(* driver (cli.py).                                                        *)
(*                                                                         *)
(* Text is a tuple of one-character strings, so that parsing (strptime,    *)
(* int, split) is computed character by character as the library does it.  *)
(* A Python value is a record of one shape, tagged by its type, so that    *)
(* None, str, int, datetime, list and Building values can be compared.     *)
(***************************************************************************)
EXTENDS Integers, Sequences, FiniteSets, TLC

(***************************************************************************)
(* Bounds of the model.                                                    *)
(***************************************************************************)
MaxRows == 3
MaxMainRows == 2
MaxGaps == 2

(***************************************************************************)
(* Python values.                                                          *)
(***************************************************************************)
None == [t |-> "None", s |-> <<>>, n |-> <<>>, l |-> <<>>]
PyStr(s) == [t |-> "str", s |-> s, n |-> <<>>, l |-> <<>>]
PyInt(i) == [t |-> "int", s |-> <<>>, n |-> <<i>>, l |-> <<>>]
PyDateTime(dt) == [t |-> "datetime", s |-> <<>>, n |-> dt, l |-> <<>>]
PyList(l) == [t |-> "list", s |-> <<>>, n |-> <<>>, l |-> l]
BuildingObj(name) == [t |-> "Building", s |-> name, n |-> <<>>, l |-> <<>>]

\* Python truth value of a value (bool(v)).
Truthy(v) ==
    CASE v.t = "None" -> FALSE
      [] v.t = "str" -> v.s # <<>>
      [] v.t = "int" -> v.n[1] # 0
      [] v.t = "list" -> v.l # <<>>
      [] OTHER -> TRUE

(***************************************************************************)
(* Characters.  A character of Latin-1 is the one-character string itself; *)
(* any other character is the element "U+XXXX" named by its code point.    *)
(***************************************************************************)
\* the digits of the bracket classes of a pattern: [0-9]
AsciiDigit == {"0", "1", "2", "3", "4", "5", "6", "7", "8", "9"}

\* the decimal digits of Unicode, a row of ten per script, zero first:
\* what \d of a str pattern matches and what int() reads as a digit
DecimalDigitRows ==
    << << "0", "1", "2", "3", "4", "5", "6", "7", "8", "9" >>,
       << "U+0660", "U+0661", "U+0662", "U+0663", "U+0664", "U+0665", "U+0666", "U+0667", "U+0668", "U+0669" >>,
       << "U+06F0", "U+06F1", "U+06F2", "U+06F3", "U+06F4", "U+06F5", "U+06F6", "U+06F7", "U+06F8", "U+06F9" >>,
       << "U+07C0", "U+07C1", "U+07C2", "U+07C3", "U+07C4", "U+07C5", "U+07C6", "U+07C7", "U+07C8", "U+07C9" >>,
       << "U+0966", "U+0967", "U+0968", "U+0969", "U+096A", "U+096B", "U+096C", "U+096D", "U+096E", "U+096F" >>,
       << "U+09E6", "U+09E7", "U+09E8", "U+09E9", "U+09EA", "U+09EB", "U+09EC", "U+09ED", "U+09EE", "U+09EF" >>,
       << "U+0A66", "U+0A67", "U+0A68", "U+0A69", "U+0A6A", "U+0A6B", "U+0A6C", "U+0A6D", "U+0A6E", "U+0A6F" >>,
       << "U+0AE6", "U+0AE7", "U+0AE8", "U+0AE9", "U+0AEA", "U+0AEB", "U+0AEC", "U+0AED", "U+0AEE", "U+0AEF" >>,
       << "U+0B66", "U+0B67", "U+0B68", "U+0B69", "U+0B6A", "U+0B6B", "U+0B6C", "U+0B6D", "U+0B6E", "U+0B6F" >>,
       << "U+0BE6", "U+0BE7", "U+0BE8", "U+0BE9", "U+0BEA", "U+0BEB", "U+0BEC", "U+0BED", "U+0BEE", "U+0BEF" >>,
       << "U+0C66", "U+0C67", "U+0C68", "U+0C69", "U+0C6A", "U+0C6B", "U+0C6C", "U+0C6D", "U+0C6E", "U+0C6F" >>,
       << "U+0CE6", "U+0CE7", "U+0CE8", "U+0CE9", "U+0CEA", "U+0CEB", "U+0CEC", "U+0CED", "U+0CEE", "U+0CEF" >>,
       << "U+0D66", "U+0D67", "U+0D68", "U+0D69", "U+0D6A", "U+0D6B", "U+0D6C", "U+0D6D", "U+0D6E", "U+0D6F" >>,
       << "U+0DE6", "U+0DE7", "U+0DE8", "U+0DE9", "U+0DEA", "U+0DEB", "U+0DEC", "U+0DED", "U+0DEE", "U+0DEF" >>,
       << "U+0E50", "U+0E51", "U+0E52", "U+0E53", "U+0E54", "U+0E55", "U+0E56", "U+0E57", "U+0E58", "U+0E59" >>,
       << "U+0ED0", "U+0ED1", "U+0ED2", "U+0ED3", "U+0ED4", "U+0ED5", "U+0ED6", "U+0ED7", "U+0ED8", "U+0ED9" >>,
       << "U+0F20", "U+0F21", "U+0F22", "U+0F23", "U+0F24", "U+0F25", "U+0F26", "U+0F27", "U+0F28", "U+0F29" >>,
       << "U+1040", "U+1041", "U+1042", "U+1043", "U+1044", "U+1045", "U+1046", "U+1047", "U+1048", "U+1049" >>,
       << "U+1090", "U+1091", "U+1092", "U+1093", "U+1094", "U+1095", "U+1096", "U+1097", "U+1098", "U+1099" >>,
       << "U+17E0", "U+17E1", "U+17E2", "U+17E3", "U+17E4", "U+17E5", "U+17E6", "U+17E7", "U+17E8", "U+17E9" >>,
       << "U+1810", "U+1811", "U+1812", "U+1813", "U+1814", "U+1815", "U+1816", "U+1817", "U+1818", "U+1819" >>,
       << "U+1946", "U+1947", "U+1948", "U+1949", "U+194A", "U+194B", "U+194C", "U+194D", "U+194E", "U+194F" >>,
       << "U+19D0", "U+19D1", "U+19D2", "U+19D3", "U+19D4", "U+19D5", "U+19D6", "U+19D7", "U+19D8", "U+19D9" >>,
       << "U+1A80", "U+1A81", "U+1A82", "U+1A83", "U+1A84", "U+1A85", "U+1A86", "U+1A87", "U+1A88", "U+1A89" >>,
       << "U+1A90", "U+1A91", "U+1A92", "U+1A93", "U+1A94", "U+1A95", "U+1A96", "U+1A97", "U+1A98", "U+1A99" >>,
       << "U+1B50", "U+1B51", "U+1B52", "U+1B53", "U+1B54", "U+1B55", "U+1B56", "U+1B57", "U+1B58", "U+1B59" >>,
       << "U+1BB0", "U+1BB1", "U+1BB2", "U+1BB3", "U+1BB4", "U+1BB5", "U+1BB6", "U+1BB7", "U+1BB8", "U+1BB9" >>,
       << "U+1C40", "U+1C41", "U+1C42", "U+1C43", "U+1C44", "U+1C45", "U+1C46", "U+1C47", "U+1C48", "U+1C49" >>,
       << "U+1C50", "U+1C51", "U+1C52", "U+1C53", "U+1C54", "U+1C55", "U+1C56", "U+1C57", "U+1C58", "U+1C59" >>,
       << "U+A620", "U+A621", "U+A622", "U+A623", "U+A624", "U+A625", "U+A626", "U+A627", "U+A628", "U+A629" >>,
       << "U+A8D0", "U+A8D1", "U+A8D2", "U+A8D3", "U+A8D4", "U+A8D5", "U+A8D6", "U+A8D7", "U+A8D8", "U+A8D9" >>,
       << "U+A900", "U+A901", "U+A902", "U+A903", "U+A904", "U+A905", "U+A906", "U+A907", "U+A908", "U+A909" >>,
       << "U+A9D0", "U+A9D1", "U+A9D2", "U+A9D3", "U+A9D4", "U+A9D5", "U+A9D6", "U+A9D7", "U+A9D8", "U+A9D9" >>,
       << "U+A9F0", "U+A9F1", "U+A9F2", "U+A9F3", "U+A9F4", "U+A9F5", "U+A9F6", "U+A9F7", "U+A9F8", "U+A9F9" >>,
       << "U+AA50", "U+AA51", "U+AA52", "U+AA53", "U+AA54", "U+AA55", "U+AA56", "U+AA57", "U+AA58", "U+AA59" >>,
       << "U+ABF0", "U+ABF1", "U+ABF2", "U+ABF3", "U+ABF4", "U+ABF5", "U+ABF6", "U+ABF7", "U+ABF8", "U+ABF9" >>,
       << "U+FF10", "U+FF11", "U+FF12", "U+FF13", "U+FF14", "U+FF15", "U+FF16", "U+FF17", "U+FF18", "U+FF19" >>,
       << "U+104A0", "U+104A1", "U+104A2", "U+104A3", "U+104A4", "U+104A5", "U+104A6", "U+104A7", "U+104A8", "U+104A9" >>,
       << "U+10D30", "U+10D31", "U+10D32", "U+10D33", "U+10D34", "U+10D35", "U+10D36", "U+10D37", "U+10D38", "U+10D39" >>,
       << "U+11066", "U+11067", "U+11068", "U+11069", "U+1106A", "U+1106B", "U+1106C", "U+1106D", "U+1106E", "U+1106F" >>,
       << "U+110F0", "U+110F1", "U+110F2", "U+110F3", "U+110F4", "U+110F5", "U+110F6", "U+110F7", "U+110F8", "U+110F9" >>,
       << "U+11136", "U+11137", "U+11138", "U+11139", "U+1113A", "U+1113B", "U+1113C", "U+1113D", "U+1113E", "U+1113F" >>,
       << "U+111D0", "U+111D1", "U+111D2", "U+111D3", "U+111D4", "U+111D5", "U+111D6", "U+111D7", "U+111D8", "U+111D9" >>,
       << "U+112F0", "U+112F1", "U+112F2", "U+112F3", "U+112F4", "U+112F5", "U+112F6", "U+112F7", "U+112F8", "U+112F9" >>,
       << "U+11450", "U+11451", "U+11452", "U+11453", "U+11454", "U+11455", "U+11456", "U+11457", "U+11458", "U+11459" >>,
       << "U+114D0", "U+114D1", "U+114D2", "U+114D3", "U+114D4", "U+114D5", "U+114D6", "U+114D7", "U+114D8", "U+114D9" >>,
       << "U+11650", "U+11651", "U+11652", "U+11653", "U+11654", "U+11655", "U+11656", "U+11657", "U+11658", "U+11659" >>,
       << "U+116C0", "U+116C1", "U+116C2", "U+116C3", "U+116C4", "U+116C5", "U+116C6", "U+116C7", "U+116C8", "U+116C9" >>,
       << "U+11730", "U+11731", "U+11732", "U+11733", "U+11734", "U+11735", "U+11736", "U+11737", "U+11738", "U+11739" >>,
       << "U+118E0", "U+118E1", "U+118E2", "U+118E3", "U+118E4", "U+118E5", "U+118E6", "U+118E7", "U+118E8", "U+118E9" >>,
       << "U+11950", "U+11951", "U+11952", "U+11953", "U+11954", "U+11955", "U+11956", "U+11957", "U+11958", "U+11959" >>,
       << "U+11C50", "U+11C51", "U+11C52", "U+11C53", "U+11C54", "U+11C55", "U+11C56", "U+11C57", "U+11C58", "U+11C59" >>,
       << "U+11D50", "U+11D51", "U+11D52", "U+11D53", "U+11D54", "U+11D55", "U+11D56", "U+11D57", "U+11D58", "U+11D59" >>,
       << "U+11DA0", "U+11DA1", "U+11DA2", "U+11DA3", "U+11DA4", "U+11DA5", "U+11DA6", "U+11DA7", "U+11DA8", "U+11DA9" >>,
       << "U+16A60", "U+16A61", "U+16A62", "U+16A63", "U+16A64", "U+16A65", "U+16A66", "U+16A67", "U+16A68", "U+16A69" >>,
       << "U+16AC0", "U+16AC1", "U+16AC2", "U+16AC3", "U+16AC4", "U+16AC5", "U+16AC6", "U+16AC7", "U+16AC8", "U+16AC9" >>,
       << "U+16B50", "U+16B51", "U+16B52", "U+16B53", "U+16B54", "U+16B55", "U+16B56", "U+16B57", "U+16B58", "U+16B59" >>,
       << "U+1D7CE", "U+1D7CF", "U+1D7D0", "U+1D7D1", "U+1D7D2", "U+1D7D3", "U+1D7D4", "U+1D7D5", "U+1D7D6", "U+1D7D7" >>,
       << "U+1D7D8", "U+1D7D9", "U+1D7DA", "U+1D7DB", "U+1D7DC", "U+1D7DD", "U+1D7DE", "U+1D7DF", "U+1D7E0", "U+1D7E1" >>,
       << "U+1D7E2", "U+1D7E3", "U+1D7E4", "U+1D7E5", "U+1D7E6", "U+1D7E7", "U+1D7E8", "U+1D7E9", "U+1D7EA", "U+1D7EB" >>,
       << "U+1D7EC", "U+1D7ED", "U+1D7EE", "U+1D7EF", "U+1D7F0", "U+1D7F1", "U+1D7F2", "U+1D7F3", "U+1D7F4", "U+1D7F5" >>,
       << "U+1D7F6", "U+1D7F7", "U+1D7F8", "U+1D7F9", "U+1D7FA", "U+1D7FB", "U+1D7FC", "U+1D7FD", "U+1D7FE", "U+1D7FF" >>,
       << "U+1E140", "U+1E141", "U+1E142", "U+1E143", "U+1E144", "U+1E145", "U+1E146", "U+1E147", "U+1E148", "U+1E149" >>,
       << "U+1E2F0", "U+1E2F1", "U+1E2F2", "U+1E2F3", "U+1E2F4", "U+1E2F5", "U+1E2F6", "U+1E2F7", "U+1E2F8", "U+1E2F9" >>,
       << "U+1E950", "U+1E951", "U+1E952", "U+1E953", "U+1E954", "U+1E955", "U+1E956", "U+1E957", "U+1E958", "U+1E959" >>,
       << "U+1FBF0", "U+1FBF1", "U+1FBF2", "U+1FBF3", "U+1FBF4", "U+1FBF5", "U+1FBF6", "U+1FBF7", "U+1FBF8", "U+1FBF9" >> >>

Digit == UNION {{DecimalDigitRows[r][k] : k \in 1..10} : r \in 1..Len(DecimalDigitRows)}

AsciiDigitVal ==
    ("0" :> 0) @@ ("1" :> 1) @@ ("2" :> 2) @@ ("3" :> 3) @@ ("4" :> 4)
    @@ ("5" :> 5) @@ ("6" :> 6) @@ ("7" :> 7) @@ ("8" :> 8) @@ ("9" :> 9)

\* the place of c in its row, less one; -1 when no row has c
Place(rows, c) ==
    IF \E r \in 1..Len(rows) : \E k \in 1..10 : rows[r][k] = c
    THEN (CHOOSE k \in 1..10 : \E r \in 1..Len(rows) : rows[r][k] = c) - 1
    ELSE -1

\* the value of c as a decimal digit, -1 when c is none.  The only decimal
\* digits of Latin-1 are 0-9, so the rows are searched for the others only.
DecimalOf(c) ==
    IF c \in AsciiDigit THEN AsciiDigitVal[c]
    ELSE IF Len(c) = 1 THEN -1
    ELSE Place(DecimalDigitRows, c)

\* the decimal value of every character of a text
Decimals(text) == [k \in 1..Len(text) |-> DecimalOf(text[k])]

\* what \s of a str pattern matches (str.isspace)
\* (the first rows hold, after "\n", U+000B, and after "\r", U+001C to U+001F,
\* the blank, U+0085 and U+00A0 as the characters themselves)
Whitespace ==
    { "\t", "\n", "", "\f", "\r", "", "", "",
      "", " ", "", " ", "U+1680", "U+2000", "U+2001", "U+2002",
      "U+2003", "U+2004", "U+2005", "U+2006", "U+2007", "U+2008", "U+2009", "U+200A",
      "U+2028", "U+2029", "U+202F", "U+205F", "U+3000" }

\* the whitespace int() drops around the number
IntWhitespace == Whitespace \ {"", "", "", ""}

(***************************************************************************)
(* datetime.strptime.  The format is translated to a regular expression    *)
(* (one group per directive, a run of whitespace for a blank, the literal  *)
(* itself otherwise), matched from the start of the text with the regular  *)
(* expression engine's priority order and backtracking; the text must be   *)
(* consumed entirely and the fields must form a valid date.                *)
(* A format is the tuple of its directives and literal characters.         *)
(***************************************************************************)
\* [A]
Alt1(text, dec, p, A) ==
    IF p <= Len(text) /\ text[p] \in A
    THEN << [end |-> p + 1, val |-> dec[p]] >>
    ELSE << >>

\* [A][B]
Alt2(text, dec, p, A, B) ==
    IF p + 1 <= Len(text) /\ text[p] \in A /\ text[p + 1] \in B
    THEN << [end |-> p + 2, val |-> 10 * dec[p] + dec[p + 1]] >>
    ELSE << >>

\* \d
AltD(dec, p) ==
    IF p <= Len(dec) /\ dec[p] >= 0
    THEN << [end |-> p + 1, val |-> dec[p]] >>
    ELSE << >>

\* [A]\d
Alt1D(text, dec, p, A) ==
    IF p + 1 <= Len(text) /\ text[p] \in A /\ dec[p + 1] >= 0
    THEN << [end |-> p + 2, val |-> 10 * dec[p] + dec[p + 1]] >>
    ELSE << >>

\* \d\d
AltDD(dec, p) ==
    IF p + 1 <= Len(dec) /\ dec[p] >= 0 /\ dec[p + 1] >= 0
    THEN << [end |-> p + 2, val |-> 10 * dec[p] + dec[p + 1]] >>
    ELSE << >>

\* " [1-9]", the last alternative of %d
AltBlank1(text, dec, p) ==
    IF p + 1 <= Len(text) /\ text[p] = " " /\ text[p + 1] \in (AsciiDigit \ {"0"})
    THEN << [end |-> p + 2, val |-> dec[p + 1]] >>
    ELSE << >>

\* \d\d\d\d
AltYear(dec, p) ==
    IF p + 3 <= Len(dec) /\ \A k \in 0..3 : dec[p + k] >= 0
    THEN << [end |-> p + 4,
             val |-> 1000 * dec[p] + 100 * dec[p + 1] + 10 * dec[p + 2] + dec[p + 3]] >>
    ELSE << >>

\* am|pm, case-insensitive; the value is 0 for am and 1 for pm
AltAmPm(text, p) ==
    IF p + 1 <= Len(text) /\ text[p] \in {"a", "A", "p", "P"} /\ text[p + 1] \in {"m", "M"}
    THEN << [end |-> p + 2, val |-> IF text[p] \in {"a", "A"} THEN 0 ELSE 1] >>
    ELSE << >>

\* length of the run of whitespace that starts at p
RECURSIVE SpaceRun(_, _)
SpaceRun(text, p) ==
    IF p <= Len(text) /\ text[p] \in Whitespace THEN 1 + SpaceRun(text, p + 1) ELSE 0

\* \s+ is greedy: the longest run first, then shorter ones
AltSpaces(text, p) ==
    LET run == SpaceRun(text, p)
    IN  [k \in 1..run |-> [end |-> p + run - k + 1, val |-> 0]]

AltLiteral(text, p, c) ==
    IF p <= Len(text) /\ text[p] = c THEN << [end |-> p + 1, val |-> 0] >> ELSE << >>

\* the ways one element of the format matches at position p, in priority order
DirectiveAlts(tok, text, dec, p) ==
    CASE tok = "%Y" -> AltYear(dec, p)
      [] tok = "%y" -> AltDD(dec, p)
      [] tok \in {"%m", "%I"} ->
            Alt2(text, dec, p, {"1"}, {"0", "1", "2"})
            \o Alt2(text, dec, p, {"0"}, AsciiDigit \ {"0"})
            \o Alt1(text, dec, p, AsciiDigit \ {"0"})
      [] tok = "%d" ->
            Alt2(text, dec, p, {"3"}, {"0", "1"})
            \o Alt1D(text, dec, p, {"1", "2"})
            \o Alt2(text, dec, p, {"0"}, AsciiDigit \ {"0"})
            \o Alt1(text, dec, p, AsciiDigit \ {"0"})
            \o AltBlank1(text, dec, p)
      [] tok = "%H" ->
            Alt2(text, dec, p, {"2"}, {"0", "1", "2", "3"})
            \o Alt1D(text, dec, p, {"0", "1"})
            \o AltD(dec, p)
      [] tok = "%M" ->
            Alt1D(text, dec, p, {"0", "1", "2", "3", "4", "5"})
            \o AltD(dec, p)
      [] tok = "%p" -> AltAmPm(text, p)
      [] tok = " " -> AltSpaces(text, p)
      [] OTHER -> AltLiteral(text, p, tok)

\* the groups of a match; -1 is a group that is not in the format
NoCap == [Y |-> -1, y |-> -1, m |-> -1, d |-> -1, H |-> -1, I |-> -1, M |-> -1, p |-> -1]

Capture(cap, tok, val) ==
    CASE tok = "%Y" -> [cap EXCEPT !.Y = val]
      [] tok = "%y" -> [cap EXCEPT !.y = val]
      [] tok = "%m" -> [cap EXCEPT !.m = val]
      [] tok = "%d" -> [cap EXCEPT !.d = val]
      [] tok = "%H" -> [cap EXCEPT !.H = val]
      [] tok = "%I" -> [cap EXCEPT !.I = val]
      [] tok = "%M" -> [cap EXCEPT !.M = val]
      [] tok = "%p" -> [cap EXCEPT !.p = val]
      [] OTHER -> cap

ReFail == [ok |-> FALSE, end |-> 0, cap |-> NoCap]

\* re.match: the first match of the pattern from position p, by backtracking
RECURSIVE ReMatch(_, _, _, _, _, _)
RECURSIVE ReTry(_, _, _, _, _, _, _)
ReMatch(text, dec, fmt, i, p, cap) ==
    IF i > Len(fmt)
    THEN [ok |-> TRUE, end |-> p, cap |-> cap]
    ELSE ReTry(text, dec, fmt, i, DirectiveAlts(fmt[i], text, dec, p), 1, cap)
ReTry(text, dec, fmt, i, alts, k, cap) ==
    IF k > Len(alts)
    THEN ReFail
    ELSE LET r == ReMatch(text, dec, fmt, i + 1, alts[k].end,
                          Capture(cap, fmt[i], alts[k].val))
         IN  IF r.ok THEN r ELSE ReTry(text, dec, fmt, i, alts, k + 1, cap)

IsLeap(y) == (y % 4 = 0) /\ ((y % 100 # 0) \/ (y % 400 = 0))
DaysInMonth(y, m) ==
    IF m = 2 THEN (IF IsLeap(y) THEN 29 ELSE 28)
    ELSE IF m \in {4, 6, 9, 11} THEN 30 ELSE 31

\* the date and time fields computed from the groups of a match
CapYear(cap) ==
    IF cap.Y # -1 THEN cap.Y
    ELSE IF cap.y # -1 THEN (IF cap.y <= 68 THEN 2000 + cap.y ELSE 1900 + cap.y)
    ELSE 1900
CapMonth(cap) == IF cap.m # -1 THEN cap.m ELSE 1
CapDay(cap) == IF cap.d # -1 THEN cap.d ELSE 1
CapHour(cap) ==
    IF cap.H # -1 THEN cap.H
    ELSE IF cap.I # -1
         THEN (IF cap.p = 1
               THEN (IF cap.I = 12 THEN 12 ELSE cap.I + 12)
               ELSE (IF cap.I = 12 THEN 0 ELSE cap.I))
    ELSE 0
CapMinute(cap) == IF cap.M # -1 THEN cap.M ELSE 0

\* datetime.strptime(text, fmt): ok with the datetime, or not ok (ValueError)
strptime(text, fmt) ==
    LET r == ReMatch(text, Decimals(text), fmt, 1, 1, NoCap)
    IN  IF ~r.ok \/ r.end # Len(text) + 1
        THEN [ok |-> FALSE, dt |-> << >>]
        ELSE IF CapYear(r.cap) < 1 \/ CapDay(r.cap) > DaysInMonth(CapYear(r.cap), CapMonth(r.cap))
        THEN [ok |-> FALSE, dt |-> << >>]
        ELSE [ok |-> TRUE,
              dt |-> << CapYear(r.cap), CapMonth(r.cap), CapDay(r.cap),
                        CapHour(r.cap), CapMinute(r.cap) >>]

(***************************************************************************)
(* Constants of report.py and cli.py.                                      *)
(***************************************************************************)
STANDARD_FIELDS ==
    << "ID", "Title", "Resp Group", "Requestor", "Requestor Email", "Requestor Phone",
       "Acct/Dept", "Class Support Building", "Room number", "Classroom Problem Types",
       "Created", "Modified", "Status" >>

TIME_FORMATS ==
    << << "%Y", "-", "%m", "-", "%d", " ", "%H", ":", "%M" >>,
       << "%m", "/", "%d", "/", "%Y", " ", "%H", ":", "%M" >>,
       << "%m", "/", "%d", "/", "%y", " ", "%H", ":", "%M" >>,
       << "%d", ".", "%m", ".", "%Y", " ", "%H", ":", "%M" >>,
       << "%d", ".", "%m", ".", "%y", " ", "%H", ":", "%M" >>,
       << "%Y", "-", "%m", "-", "%d", " ", "%I", ":", "%M", " ", "%p" >>,
       << "%m", "/", "%d", "/", "%Y", " ", "%I", ":", "%M", " ", "%p" >>,
       << "%m", "/", "%d", "/", "%y", " ", "%I", ":", "%M", " ", "%p" >>,
       << "%d", ".", "%m", ".", "%Y", " ", "%I", ":", "%M", " ", "%p" >>,
       << "%d", ".", "%m", ".", "%y", " ", "%I", ":", "%M", " ", "%p" >> >>

DATE_FORMATS ==
    << << "%Y", "-", "%m", "-", "%d" >>,
       << "%m", "/", "%d", "/", "%Y" >>,
       << "%m", "/", "%d", "/", "%y" >>,
       << "%d", ".", "%m", ".", "%Y" >>,
       << "%d", ".", "%m", ".", "%Y" >> >>

(***************************************************************************)
(* A row of the report as csv.DictReader yields it: a dict from the column *)
(* names to str values, with None for a column the row is too short to     *)
(* fill.  The dict is modelled as a function over the canonical columns;   *)
(* a column that the header does not have is None too, which is what       *)
(* dict.get returns for it.                                                *)
(***************************************************************************)
FieldNames == {STANDARD_FIELDS[i] : i \in 1..Len(STANDARD_FIELDS)}

\* csv_ticket.get(field)
DictGet(csv_ticket, field) == csv_ticket[field]

(***************************************************************************)
(* report.py: get_fields_present                                           *)
(***************************************************************************)
get_fields_present_TruthyTest(csv_ticket) ==
    SelectSeq(STANDARD_FIELDS, LAMBDA field : Truthy(DictGet(csv_ticket, field)))

get_fields_present(csv_ticket) ==
    SelectSeq(STANDARD_FIELDS, LAMBDA field : DictGet(csv_ticket, field).t # "None")

(***************************************************************************)
(* report.py: get_time_format.  The outcome is the value returned (None or *)
(* the format, a str) or the exception raised.                             *)
(***************************************************************************)
RECURSIVE TryFormats(_, _, _)
TryFormats(time_text, formats, i) ==
    IF i > Len(formats)
    THEN [exc |-> "BadReportError", val |-> None]
    ELSE IF strptime(time_text, formats[i]).ok
         THEN [exc |-> "none", val |-> PyStr(formats[i])]
         ELSE TryFormats(time_text, formats, i + 1)

get_time_format_ModifiedFirst(csv_ticket) ==
    IF Truthy(DictGet(csv_ticket, "Modified"))
    THEN TryFormats(csv_ticket["Modified"].s, TIME_FORMATS, 1)
    ELSE IF Truthy(DictGet(csv_ticket, "Created"))
         THEN TryFormats(csv_ticket["Created"].s, TIME_FORMATS, 1)
         ELSE [exc |-> "none", val |-> None]

get_time_format(csv_ticket) ==
    IF Truthy(DictGet(csv_ticket, "Created"))
    THEN TryFormats(csv_ticket["Created"].s, TIME_FORMATS, 1)
    ELSE IF Truthy(DictGet(csv_ticket, "Modified"))
         THEN TryFormats(csv_ticket["Modified"].s, TIME_FORMATS, 1)
         ELSE [exc |-> "none", val |-> None]

(***************************************************************************)
(* int(text): surrounding whitespace is dropped, then an optional sign and *)
(* decimal digits, with single underscores allowed between digits.         *)
(***************************************************************************)
RECURSIVE LStrip(_)
LStrip(text) ==
    IF text # << >> /\ Head(text) \in IntWhitespace THEN LStrip(Tail(text)) ELSE text

RECURSIVE RStrip(_)
RStrip(text) ==
    IF text # << >> /\ text[Len(text)] \in IntWhitespace
    THEN RStrip(SubSeq(text, 1, Len(text) - 1))
    ELSE text

\* the number a run of digits and underscores reads as
RECURSIVE DigitsValue(_, _)
DigitsValue(dec, acc) ==
    IF dec = << >> THEN acc
    ELSE IF Head(dec) < 0 THEN DigitsValue(Tail(dec), acc)
    ELSE DigitsValue(Tail(dec), 10 * acc + Head(dec))

\* the digits from the first that is not zero on: the zeros that lead a
\* number add nothing to it
Significant(dec) ==
    LET nonzero == {k \in 1..Len(dec) : dec[k] > 0}
    IN  IF nonzero = {}
        THEN << >>
        ELSE SubSeq(dec, CHOOSE k \in nonzero : \A j \in nonzero : k <= j, Len(dec))

\* the digits of the number, underscores apart
DigitCount(dec) == Cardinality({k \in 1..Len(dec) : dec[k] >= 0})

\* int() refuses a text of more digits than sys.get_int_max_str_digits(),
\* 4300 unless it is set otherwise, which the program does not do
ExceedsMaxStrDigits(dec) == DigitCount(dec) > 4300

IntParse(text) ==
    LET stripped == RStrip(LStrip(text))
        signed == stripped # << >> /\ Head(stripped) \in {"+", "-"}
        body == IF signed THEN Tail(stripped) ELSE stripped
        dec == Decimals(body)
        wellFormed ==
            /\ body # << >>
            /\ \A k \in 1..Len(body) : dec[k] >= 0 \/ body[k] = "_"
            /\ dec[1] >= 0
            /\ dec[Len(body)] >= 0
            /\ \A k \in 1..(Len(body) - 1) : ~(body[k] = "_" /\ body[k + 1] = "_")
    IN  IF ~wellFormed \/ ExceedsMaxStrDigits(dec)
        THEN [ok |-> FALSE, val |-> 0]
        ELSE [ok |-> TRUE,
              val |-> IF signed /\ Head(stripped) = "-"
                      THEN 0 - DigitsValue(Significant(dec), 0)
                      ELSE DigitsValue(Significant(dec), 0)]

(***************************************************************************)
(* text.split(", ")                                                        *)
(***************************************************************************)
RECURSIVE SplitFrom(_, _, _)
SplitFrom(text, start, p) ==
    IF p > Len(text)
    THEN << SubSeq(text, start, Len(text)) >>
    ELSE IF text[p] = "," /\ p + 1 <= Len(text) /\ text[p + 1] = " "
         THEN << SubSeq(text, start, p - 1) >> \o SplitFrom(text, p + 2, p + 2)
         ELSE SplitFrom(text, start, p + 1)

SplitCommaSpace(text) == SplitFrom(text, 1, 1)

(***************************************************************************)
(* ticketclasses.py: the values of the Diagnosis enumeration.              *)
(* Diagnosis(token) raises ValueError for a token that is no member.       *)
(***************************************************************************)
DiagnosisValues ==
    { <<"C", "a", "b", "l", "e">>, <<"A", "u", "d", "i", "o">> }

(***************************************************************************)
(* report.py: Report.clean_ticket_dict.  The outcome is the exception      *)
(* raised ("none" when the row was cleaned), the field whose conversion    *)
(* raised it, and the row.  The conversions run in the order of the code,  *)
(* and the first one that raises ends the call.                            *)
(***************************************************************************)
CleanId(csv_ticket) ==
    IF Truthy(DictGet(csv_ticket, "ID"))
    THEN LET r == IntParse(csv_ticket["ID"].s)
         IN  IF r.ok
             THEN [exc |-> "none", at |-> "", row |-> [csv_ticket EXCEPT !["ID"] = PyInt(r.val)]]
             ELSE [exc |-> "ValueError", at |-> "ID", row |-> csv_ticket]
    ELSE [exc |-> "none", at |-> "", row |-> [csv_ticket EXCEPT !["ID"] = PyInt(0)]]

CleanTime(time_format, o, field) ==
    IF o.exc # "none" \/ ~Truthy(DictGet(o.row, field))
    THEN o
    ELSE IF time_format.t # "str"
         THEN [exc |-> "TypeError", at |-> field, row |-> o.row]
         ELSE LET r == strptime(o.row[field].s, time_format.s)
              IN  IF r.ok
                  THEN [o EXCEPT !.row[field] = PyDateTime(r.dt)]
                  ELSE [exc |-> "ValueError", at |-> field, row |-> o.row]

CleanProblemTypes(o) ==
    IF o.exc # "none"
    THEN o
    ELSE IF Truthy(DictGet(o.row, "Classroom Problem Types"))
         THEN LET problem_types == SplitCommaSpace(o.row["Classroom Problem Types"].s)
              IN  IF \E k \in 1..Len(problem_types) : problem_types[k] \notin DiagnosisValues
                  THEN [exc |-> "BadReportError", at |-> "Classroom Problem Types", row |-> o.row]
                  ELSE [o EXCEPT !.row["Classroom Problem Types"] = PyList(problem_types)]
         ELSE [o EXCEPT !.row["Classroom Problem Types"] = PyList(<< >>)]

clean_ticket_dict(time_format, csv_ticket) ==
    CleanProblemTypes(
        CleanTime(time_format,
                  CleanTime(time_format, CleanId(csv_ticket), "Created"),
                  "Modified"))

(***************************************************************************)
(* organization.py: the Organization, its buildings and rooms, and the     *)
(* flat list of its tickets.                                               *)
(***************************************************************************)
EmptyOrganization == [tickets |-> << >>, buildings |-> {}, rooms |-> {}]

add_new_ticket(org, row) ==
    LET building == row["Class Support Building"]
        room == row["Room number"]
    IN  [tickets |-> Append(org.tickets, row),
         buildings |-> IF Truthy(building) THEN org.buildings \cup {building.s}
                       ELSE org.buildings,
         rooms |-> IF Truthy(building) /\ Truthy(room)
                   THEN org.rooms \cup {<< building.s, room.s >>}
                   ELSE org.rooms]

find_building(org, name) ==
    IF name \in org.buildings THEN BuildingObj(name) ELSE None

(***************************************************************************)
(* report.py: the loop of Report.populate over the rows of the file: each  *)
(* row is cleaned and added to the Organization, and the first row that    *)
(* raises ends the loop with what was added before it still in place.      *)
(***************************************************************************)
RECURSIVE PopulateLoop(_, _, _, _, _)
PopulateLoop(time_format, rows, i, org, count) ==
    IF i > Len(rows)
    THEN [exc |-> "none", at |-> "", org |-> org, count |-> count]
    ELSE LET c == clean_ticket_dict(time_format, rows[i])
         IN  IF c.exc # "none"
             THEN [exc |-> c.exc, at |-> c.at, org |-> org, count |-> count]
             ELSE PopulateLoop(time_format, rows, i + 1, add_new_ticket(org, c.row), count + 1)

(***************************************************************************)
(* cli.py: check_date and check_options.                                   *)
(***************************************************************************)
\* the datetime of the first of DATE_FORMATS that parses, or the exit
RECURSIVE TryDates(_, _)
TryDates(date_text, i) ==
    IF i > Len(DATE_FORMATS)
    THEN [exit |-> TRUE, val |-> None]
    ELSE IF strptime(date_text, DATE_FORMATS[i]).ok
         THEN [exit |-> FALSE, val |-> PyDateTime(strptime(date_text, DATE_FORMATS[i]).dt)]
         ELSE TryDates(date_text, i + 1)

check_date(date_text) == TryDates(date_text, 1)

QueryCount(args) ==
    (IF args.perweek THEN 1 ELSE 0) + (IF args.perbuilding THEN 1 ELSE 0)
    + (IF args.perroom THEN 1 ELSE 0)

\* TRUE when check_options halts the program
check_options_NoBuildingRule(args) ==
    \/ QueryCount(args) > 1
    \/ QueryCount(args) = 0
    \/ args.perbuilding /\ Truthy(args.building)
    \/ ~args.perweek /\ args.weeks.t # "None"
    \/ Truthy(args.weeks) /\ Truthy(args.termend)

check_options(args) ==
    \/ QueryCount(args) > 1
    \/ QueryCount(args) = 0
    \/ args.perroom /\ ~Truthy(args.building)
    \/ args.perbuilding /\ Truthy(args.building)
    \/ ~args.perweek /\ args.weeks.t # "None"
    \/ Truthy(args.weeks) /\ Truthy(args.termend)

\* the tests of main on the fields of the report, one per query
PerWeekLegal_Always(fields_present) == TRUE
PerWeekLegal(fields_present) ==
    \E i \in 1..Len(fields_present) : fields_present[i] = "Created"

PerBuildingLegal(fields_present) ==
    \E i \in 1..Len(fields_present) : fields_present[i] = "Class Support Building"

PerRoomLegal(fields_present) ==
    /\ \E i \in 1..Len(fields_present) : fields_present[i] = "Class Support Building"
    /\ \E i \in 1..Len(fields_present) : fields_present[i] = "Room number"

(***************************************************************************)
(* Texts the inputs are drawn from: timestamps in each of the formats and  *)
(* near misses of them, dates of the command line, identifiers, problem    *)
(* type cells and names.                                                   *)
(***************************************************************************)
T_ISO24 == <<"2", "0", "2", "3", "-", "0", "6", "-", "0", "6", " ", "1", "0", ":", "0", "0">>
T_US24 == <<"0", "6", "/", "0", "6", "/", "2", "0", "2", "3", " ", "1", "0", ":", "0", "0">>
T_USy24 == <<"6", "/", "7", "/", "2", "3", " ", "9", ":", "0", "5">>
T_EU24 == <<"0", "6", ".", "0", "6", ".", "2", "0", "2", "3", " ", "1", "0", ":", "0", "0">>
T_EUy24 == <<"6", ".", "6", ".", "2", "3", " ", "1", "0", ":", "0", "0">>
T_ISO12 == <<"2", "0", "2", "3", "-", "0", "6", "-", "0", "6", " ", "1", "0", ":", "0", "0", " ", "A", "M">>
T_US12 == <<"0", "6", "/", "0", "6", "/", "2", "0", "2", "3", " ", "1", ":", "3", "0", " ", "p", "m">>
T_USy12 == <<"1", "2", "/", "3", "1", "/", "9", "9", " ", "1", "2", ":", "0", "0", " ", "A", "M">>
T_EU12 == <<"3", "1", ".", "1", "2", ".", "2", "0", "2", "3", " ", "1", "1", ":", "5", "9", " ", "P", "M">>
T_EUy12 == <<"1", ".", "2", ".", "2", "3", " ", "1", "2", ":", "1", "5", " ", "p", "m">>
T_Feb30 == <<"0", "2", "/", "3", "0", "/", "2", "0", "2", "3", " ", "1", "0", ":", "0", "0">>
T_Leap == <<"0", "2", "/", "2", "9", "/", "2", "0", "2", "4", " ", "1", "0", ":", "0", "0">>
T_NoLeap == <<"2", "9", ".", "0", "2", ".", "2", "0", "2", "3", " ", "1", "0", ":", "0", "0">>
T_Month13 == <<"2", "0", "2", "3", "-", "1", "3", "-", "0", "1", " ", "1", "0", ":", "0", "0">>
T_Words == <<"J", "u", "n", "e", " ", "6", ",", " ", "2", "0", "2", "3">>
T_Seconds == <<"2", "0", "2", "3", "-", "0", "6", "-", "0", "6", " ", "1", "0", ":", "0", "0", ":", "0", "0">>
T_TwoSpaces == <<"2", "0", "2", "3", "-", "0", "6", "-", "0", "6", " ", " ", "1", "0", ":", "0", "0">>
T_Hour24 == <<"2", "0", "2", "3", "-", "0", "6", "-", "0", "6", " ", "2", "4", ":", "0", "0">>
T_Min60 == <<"2", "0", "2", "3", "-", "0", "6", "-", "0", "6", " ", "1", "0", ":", "6", "0">>
T_Hour13PM == <<"2", "0", "2", "3", "-", "0", "6", "-", "0", "6", " ", "1", "3", ":", "0", "0", " ", "P", "M">>
T_Year0 == <<"0", "0", "0", "0", "-", "0", "1", "-", "0", "1", " ", "0", "0", ":", "0", "0">>
\* a carriage return for the blank
T_CRBlank == <<"2", "0", "2", "3", "-", "0", "6", "-", "0", "6", "\r", "1", "0", ":", "0", "0">>
\* a file separator for the blank
T_FsBlank == <<"2", "0", "2", "3", "-", "0", "6", "-", "0", "6", "", "1", "0", ":", "0", "0">>
\* a no-break space and an ideographic space for the blanks
T_WideBlanks == <<"0", "6", "/", "0", "6", "/", "2", "0", "2", "3", " ", "1", ":", "3", "0", "U+3000", "p", "m">>
\* the year in Arabic-Indic digits
T_ArabicYear == <<"U+0662", "U+0660", "U+0662", "U+0663", "-", "0", "6", "-", "0", "6", " ", "1", "0", ":", "0", "0">>
\* the month in Arabic-Indic digits
T_ArabicMonth == <<"2", "0", "2", "3", "-", "U+0660", "U+0666", "-", "0", "6", " ", "1", "0", ":", "0", "0">>
\* the second digit of the minute a fullwidth zero
T_WideMinute == <<"0", "6", "/", "0", "6", "/", "2", "0", "2", "3", " ", "1", ":", "3", "U+FF10", " ", "p", "m">>

D_ISO == <<"2", "0", "2", "3", "-", "0", "6", "-", "3", "0">>
D_US == <<"0", "6", "/", "3", "0", "/", "2", "0", "2", "3">>
D_Bad == <<"3", "0", " ", "J", "u", "n", "e">>

S_x == <<"x">>
S_HallA == <<"H", "a", "l", "l", " ", "A">>
S_HallB == <<"H", "a", "l", "l", " ", "B">>
S_Nowhere == <<"N", "o", "w", "h", "e", "r", "e">>
S_101 == <<"1", "0", "1">>
S_202 == <<"2", "0", "2">>

I_7 == <<"7">>
I_abc == <<"a", "b", "c">>
I_Padded == <<" ", "4", "2", " ">>
I_Negative == <<"-", "5">>
I_Underscore == <<"1", "_", "0">>
I_Decimal == <<"7", ".", "0">>
\* an Arabic-Indic seven
I_Arabic == <<"U+0667">>
\* a leading carriage return
I_CR == <<"\r", "7">>
\* a leading file separator
I_Fs == <<"", "7">>
\* fullwidth digits and an ideographic space
I_Wide == <<"U+FF14", "U+FF12", "U+3000">>
\* 4300 digits, the most int() reads
I_MostDigits == [k \in 1..4300 |-> IF k = 4300 THEN "7" ELSE "0"]
\* 4301 digits
I_TooManyDigits == [k \in 1..4301 |-> IF k = 4301 THEN "7" ELSE "0"]

P_Cable == <<"C", "a", "b", "l", "e">>
P_CableAudio == <<"C", "a", "b", "l", "e", ",", " ", "A", "u", "d", "i", "o">>
P_CableBogus == <<"C", "a", "b", "l", "e", ",", " ", "B", "o", "g", "u", "s">>
P_NoBlank == <<"C", "a", "b", "l", "e", ",", "A", "u", "d", "i", "o">>
P_Trailing == <<"A", "u", "d", "i", "o", ",", " ">>

TimeTexts ==
    { T_ISO24, T_US24, T_USy24, T_EU24, T_EUy24,
      T_ISO12, T_US12, T_USy12, T_EU12, T_EUy12,
      T_Feb30, T_Leap, T_NoLeap, T_Month13, T_Words,
      T_Seconds, T_TwoSpaces, T_Hour24, T_Min60, T_Hour13PM,
      T_Year0, T_CRBlank, T_FsBlank, T_WideBlanks, T_ArabicYear,
      T_ArabicMonth, T_WideMinute }
IdTexts ==
    { << >>, I_7, I_abc, I_Padded, I_Negative, I_Underscore, I_Decimal,
      I_Arabic, I_CR, I_Fs, I_Wide, I_MostDigits, I_TooManyDigits }
ProblemTypeTexts == { << >>, P_Cable, P_CableAudio, P_CableBogus, P_NoBlank, P_Trailing }

(***************************************************************************)
(* Rows and files the inputs are drawn from.                               *)
(***************************************************************************)
\* a row with every canonical column filled
FullRow ==
    [f \in FieldNames |->
        CASE f = "ID" -> PyStr(I_7)
          [] f = "Class Support Building" -> PyStr(S_HallA)
          [] f = "Room number" -> PyStr(S_101)
          [] f = "Classroom Problem Types" -> PyStr(P_CableAudio)
          [] f = "Created" -> PyStr(T_ISO24)
          [] f = "Modified" -> PyStr(T_ISO24)
          [] OTHER -> PyStr(S_x)]

\* the rows that differ from FullRow in at most k cells, each of them
\* empty or missing
RECURSIVE RowsWithGaps(_)
RowsWithGaps(k) ==
    IF k = 0
    THEN {FullRow}
    ELSE RowsWithGaps(k - 1)
         \cup {[r EXCEPT ![f] = v] : r \in RowsWithGaps(k - 1), f \in FieldNames,
                                     v \in {None, PyStr(<< >>)}}

TimeValues == {None, PyStr(<< >>)} \cup {PyStr(t) : t \in TimeTexts}
ModifiedValues == {None, PyStr(<< >>), PyStr(T_ISO24), PyStr(T_US12), PyStr(T_Words)}

\* the sample rows of the detector and of the normalizer
DetectSamples ==
    RowsWithGaps(MaxGaps)
    \cup {[FullRow EXCEPT !["Created"] = c, !["Modified"] = m] :
              c \in TimeValues, m \in ModifiedValues}
    \cup {[FullRow EXCEPT !["ID"] = i, !["Classroom Problem Types"] = p] :
              i \in {None} \cup {PyStr(t) : t \in IdTexts},
              p \in {None} \cup {PyStr(t) : t \in ProblemTypeTexts}}

\* the values of Report.time_format the normalizer is applied with
SelfTimeFormats == {None, PyStr(TIME_FORMATS[1]), PyStr(TIME_FORMATS[7])}

\* the rows of the files that are loaded
RowGood == FullRow
RowSparse ==
    [FullRow EXCEPT !["ID"] = PyStr(<< >>), !["Created"] = PyStr(<< >>),
                    !["Modified"] = PyStr(<< >>), !["Room number"] = PyStr(<< >>),
                    !["Classroom Problem Types"] = PyStr(<< >>),
                    !["Class Support Building"] = PyStr(S_HallB)]
RowBadToken == [FullRow EXCEPT !["Classroom Problem Types"] = PyStr(P_CableBogus)]
RowBadId == [FullRow EXCEPT !["ID"] = PyStr(I_abc)]
RowOtherFormat == [FullRow EXCEPT !["Created"] = PyStr(T_US12), !["Modified"] = PyStr(T_US12)]
RowBadTime == [FullRow EXCEPT !["Created"] = PyStr(T_Words)]
RowModifiedOnly == [FullRow EXCEPT !["Created"] = PyStr(<< >>), !["Room number"] = PyStr(S_202)]
RowShort ==
    [FullRow EXCEPT !["Class Support Building"] = None, !["Room number"] = None,
                    !["Created"] = None, !["Modified"] = None, !["Status"] = None]
RowNoRoom == [FullRow EXCEPT !["Room number"] = None]

ReportRows ==
    { RowGood, RowSparse, RowBadToken, RowBadId, RowOtherFormat, RowBadTime,
      RowModifiedOnly, RowShort }
MainRows == { RowGood, RowSparse, RowBadToken, RowShort, RowNoRoom }

SeqsUpTo(S, n) == UNION {[1..k -> S] : k \in 0..n}

\* a file is what check_file sees of it and the rows csv.DictReader yields
ReportFiles == {[status |-> "ok", rows |-> rows] : rows \in SeqsUpTo(ReportRows, MaxRows)}
MainFiles ==
    {[status |-> "ok", rows |-> rows] : rows \in SeqsUpTo(MainRows, MaxMainRows)}
    \cup {[status |-> st, rows |-> << >>] : st \in {"noname", "missing", "notcsv"}}

\* the dict of the parsed command line (name and color are display only)
ArgSpace ==
    [perweek : BOOLEAN, perbuilding : BOOLEAN, perroom : BOOLEAN,
     weeks : {None, PyInt(0), PyInt(3)},
     termstart : {None, PyStr(D_ISO)},
     termend : {None, PyStr(D_US), PyStr(D_Bad)},
     building : {None, PyStr(<< >>), PyStr(S_HallA), PyStr(S_Nowhere)}]

NoArgs ==
    [perweek |-> FALSE, perbuilding |-> FALSE, perroom |-> FALSE, weeks |-> None,
     termstart |-> None, termend |-> None, building |-> None]

(***************************************************************************)
(* State.                                                                  *)
(***************************************************************************)
VARIABLE pc  \* the position of the program
VARIABLE args  \* the dict of the command line
VARIABLE file  \* the report file
VARIABLE report  \* the Report: fields_present and time_format
VARIABLE org  \* the Organization
VARIABLE handles  \* the file objects opened by Report.__init__ and by populate
VARIABLE exc  \* the exception that ended the program, if any
VARIABLE exit_status  \* the status given to exit(), -1 before
VARIABLE calls  \* the aggregation queries invoked, with their argument
VARIABLE sample  \* the row a helper function is applied to
VARIABLE result  \* the outcome of the helper function

vars == << pc, args, file, report, org, handles, exc, exit_status, calls, sample, result >>

NoExc == [type |-> "none", at |-> "", op |-> ""]
NoReport == [fields_present |-> << >>, time_format |-> None]
NoHandles == [init |-> "unopened", populate |-> "unopened"]
NoRow == [f \in FieldNames |-> None]
NoResult ==
    [fn |-> "", exc |-> "none", at |-> "", fields |-> << >>, val |-> None, row |-> NoRow]

InitCommon ==
    /\ report = NoReport
    /\ org = EmptyOrganization
    /\ handles = NoHandles
    /\ exc = NoExc
    /\ exit_status = -1
    /\ calls = << >>
    /\ result = NoResult

\* the program, started from the command line
Init ==
    /\ pc = "main"
    /\ args \in ArgSpace
    /\ file \in MainFiles
    /\ sample = NoRow
    /\ InitCommon

\* a report loaded on its own: Report(filename), then populate(org)
InitReport ==
    /\ pc = "construct"
    /\ args = NoArgs
    /\ file \in ReportFiles
    /\ sample = NoRow
    /\ InitCommon

\* a helper function applied to a sample row
InitDetect ==
    /\ pc = "sample"
    /\ args = NoArgs
    /\ file = [status |-> "ok", rows |-> << >>]
    /\ sample \in DetectSamples
    /\ InitCommon

(***************************************************************************)
(* The helper functions, applied to the sample row.                        *)
(***************************************************************************)
ApplyGetFieldsPresent ==
    /\ pc = "sample"
    /\ pc' = "applied"
    /\ result' = [fn |-> "get_fields_present", exc |-> "none", at |-> "",
                  fields |-> get_fields_present(sample), val |-> None, row |-> sample]
    /\ UNCHANGED << args, file, report, org, handles, exc, exit_status, calls, sample >>

ApplyGetTimeFormat ==
    /\ pc = "sample"
    /\ pc' = "applied"
    /\ LET o == get_time_format(sample)
       IN  result' = [fn |-> "get_time_format", exc |-> o.exc, at |-> "",
                      fields |-> << >>, val |-> o.val, row |-> sample]
    /\ UNCHANGED << args, file, report, org, handles, exc, exit_status, calls, sample >>

ApplyCleanTicketDict ==
    /\ pc = "sample"
    /\ pc' = "applied"
    /\ \E time_format \in SelfTimeFormats :
          LET o == clean_ticket_dict(time_format, sample)
          IN  result' = [fn |-> "clean_ticket_dict", exc |-> o.exc, at |-> o.at,
                         fields |-> << >>, val |-> time_format, row |-> o.row]
    /\ UNCHANGED << args, file, report, org, handles, exc, exit_status, calls, sample >>

(***************************************************************************)
(* report.py: Report.__init__ and Report.populate.                         *)
(***************************************************************************)
\* Report(filename): the file is opened, its first row is read, the fields
\* and the time format are detected from it, and the file is closed.  An
\* exception leaves the call before the close.
ReportInit ==
    /\ pc = "construct"
    /\ IF Len(file.rows) = 0
       THEN /\ pc' = "raised"
            /\ exc' = [type |-> "StopIteration", at |-> "", op |-> "Report.__init__"]
            /\ handles' = [handles EXCEPT !.init = "open"]
            /\ UNCHANGED report
       ELSE LET any_ticket == file.rows[1]
                o == get_time_format(any_ticket)
            IN  IF o.exc # "none"
                THEN /\ pc' = "raised"
                     /\ exc' = [type |-> o.exc, at |-> "", op |-> "Report.__init__"]
                     /\ handles' = [handles EXCEPT !.init = "open"]
                     /\ report' = [report EXCEPT
                                      !.fields_present = get_fields_present(any_ticket)]
                ELSE /\ pc' = "populate"
                     /\ report' = [fields_present |-> get_fields_present(any_ticket),
                                   time_format |-> o.val]
                     /\ handles' = [handles EXCEPT !.init = "closed"]
                     /\ UNCHANGED exc
    /\ UNCHANGED << args, file, org, exit_status, calls, sample, result >>

\* org = Organization(); report.populate(org): the file is opened, every row
\* is cleaned and added, the file is closed, and an empty report is an error.
\* An exception of the loop leaves the call before the close.
Populate ==
    /\ pc = "populate"
    /\ LET r == PopulateLoop(report.time_format, file.rows, 1, EmptyOrganization, 0)
       IN  /\ org' = r.org
           /\ IF r.exc # "none"
              THEN /\ pc' = "raised"
                   /\ exc' = [type |-> r.exc, at |-> r.at, op |-> "Report.populate"]
                   /\ handles' = [handles EXCEPT !.populate = "open"]
              ELSE /\ handles' = [handles EXCEPT !.populate = "closed"]
                   /\ IF r.count = 0
                      THEN /\ pc' = "raised"
                           /\ exc' = [type |-> "BadReportError", at |-> "empty",
                                      op |-> "Report.populate"]
                      ELSE /\ pc' = "check_dates"
                           /\ UNCHANGED exc
    /\ UNCHANGED << args, file, report, exit_status, calls, sample, result >>

(***************************************************************************)
(* cli.py: main.                                                           *)
(***************************************************************************)
Exit1 ==
    /\ pc' = "exited"
    /\ exit_status' = 1

\* check_file(filename)
CheckFile ==
    /\ pc = "main"
    /\ IF file.status # "ok"
       THEN Exit1
       ELSE pc' = "check_options" /\ UNCHANGED exit_status
    /\ UNCHANGED << args, file, report, org, handles, exc, calls, sample, result >>

\* check_options(args)
CheckOptions ==
    /\ pc = "check_options"
    /\ IF check_options(args)
       THEN Exit1
       ELSE pc' = "construct" /\ UNCHANGED exit_status
    /\ UNCHANGED << args, file, report, org, handles, exc, calls, sample, result >>

\* the dates of --termstart and --termend are parsed
CheckDates ==
    /\ pc = "check_dates"
    /\ LET start == IF Truthy(args.termstart)
                    THEN check_date(args.termstart.s)
                    ELSE [exit |-> FALSE, val |-> args.termstart]
           end == IF Truthy(args.termend)
                  THEN check_date(args.termend.s)
                  ELSE [exit |-> FALSE, val |-> args.termend]
       IN  IF start.exit
           THEN Exit1 /\ UNCHANGED args
           ELSE IF end.exit
                THEN Exit1 /\ args' = [args EXCEPT !.termstart = start.val]
                ELSE /\ pc' = "find_building"
                     /\ args' = [args EXCEPT !.termstart = start.val, !.termend = end.val]
                     /\ UNCHANGED exit_status
    /\ UNCHANGED << file, report, org, handles, exc, calls, sample, result >>

\* the name of --building is resolved to a Building of the Organization
FindBuilding ==
    /\ pc = "find_building"
    /\ IF Truthy(args.building)
       THEN LET found == find_building(org, args.building.s)
            IN  /\ args' = [args EXCEPT !.building = found]
                /\ IF ~Truthy(found)
                   THEN Exit1
                   ELSE pc' = "query_week" /\ UNCHANGED exit_status
       ELSE pc' = "query_week" /\ UNCHANGED << args, exit_status >>
    /\ UNCHANGED << file, report, org, handles, exc, calls, sample, result >>

\* if args.get("perweek"): ...
QueryPerWeek ==
    /\ pc = "query_week"
    /\ IF args.perweek
       THEN IF PerWeekLegal(report.fields_present)
            THEN /\ calls' = Append(calls, [fn |-> "per_week", args |-> args])
                 /\ pc' = "query_building"
                 /\ UNCHANGED exit_status
            ELSE Exit1 /\ UNCHANGED calls
       ELSE pc' = "query_building" /\ UNCHANGED << calls, exit_status >>
    /\ UNCHANGED << args, file, report, org, handles, exc, sample, result >>

\* if args.get("perbuilding"): ...
QueryPerBuilding ==
    /\ pc = "query_building"
    /\ IF args.perbuilding
       THEN IF PerBuildingLegal(report.fields_present)
            THEN /\ calls' = Append(calls, [fn |-> "per_building", args |-> args])
                 /\ pc' = "query_room"
                 /\ UNCHANGED exit_status
            ELSE Exit1 /\ UNCHANGED calls
       ELSE pc' = "query_room" /\ UNCHANGED << calls, exit_status >>
    /\ UNCHANGED << args, file, report, org, handles, exc, sample, result >>

\* if args.get("perroom"): ...
QueryPerRoom ==
    /\ pc = "query_room"
    /\ IF args.perroom
       THEN IF PerRoomLegal(report.fields_present)
            THEN /\ calls' = Append(calls, [fn |-> "per_room", args |-> args])
                 /\ pc' = "done"
                 /\ UNCHANGED exit_status
            ELSE Exit1 /\ UNCHANGED calls
       ELSE pc' = "done" /\ UNCHANGED << calls, exit_status >>
    /\ UNCHANGED << args, file, report, org, handles, exc, sample, result >>

(***************************************************************************)
(* Specifications.                                                         *)
(***************************************************************************)
Next ==
    \/ CheckFile
    \/ CheckOptions
    \/ ReportInit
    \/ Populate
    \/ CheckDates
    \/ FindBuilding
    \/ QueryPerWeek
    \/ QueryPerBuilding
    \/ QueryPerRoom

Spec == Init /\ [][Next]_vars

NextReport ==
    \/ ReportInit
    \/ Populate

SpecReport == InitReport /\ [][NextReport]_vars

NextDetect ==
    \/ ApplyGetFieldsPresent
    \/ ApplyGetTimeFormat
    \/ ApplyCleanTicketDict

SpecDetect == InitDetect /\ [][NextDetect]_vars

(***************************************************************************)
(* Properties.                                                             *)
(***************************************************************************)
InSeq(x, seq) == \E i \in 1..Len(seq) : seq[i] = x
FieldIndex(f) == CHOOSE i \in 1..Len(STANDARD_FIELDS) : STANDARD_FIELDS[i] = f
PopulateRan == exc.op = "Report.populate" \/ handles.populate # "unopened"

\* a cell of "Classroom Problem Types" with a token outside the enumeration
HasUnknownToken(row) ==
    /\ Truthy(row["Classroom Problem Types"])
    /\ \E k \in 1..Len(SplitCommaSpace(row["Classroom Problem Types"].s)) :
          SplitCommaSpace(row["Classroom Problem Types"].s)[k] \notin DiagnosisValues

\* C1: when populate stops at a row whose problem types hold a token outside
\* the Diagnosis enumeration, whatever the position of that row, it has failed
\* with BadReportError and the Organization holds no ticket.
C1_UnknownTokenAbortsWithNothingAdded ==
    (PopulateRan /\ exc.at = "Classroom Problem Types")
        => /\ \E i \in 1..Len(file.rows) : HasUnknownToken(file.rows[i])
           /\ exc.type = "BadReportError"
           /\ Len(org.tickets) = 0

\* C2: loading a report without data rows fails with the report-is-empty
\* BadReportError and with nothing else.
C2_EmptyReportIsBadReportError ==
    (Len(file.rows) = 0 /\ pc = "raised")
        => (exc.type = "BadReportError" /\ exc.at = "empty")

\* C3: no file object opened by Report.__init__ or Report.populate is still
\* open when the operation has been left.
C3_HandlesClosedOnEveryExit ==
    handles.init # "open" /\ handles.populate # "open"

\* C4: when populate stops at a Created or Modified value, it stops with
\* BadReportError.
C4_TimestampFailureIsBadReportError ==
    (pc = "raised" /\ exc.op = "Report.populate" /\ exc.at \in {"Created", "Modified"})
        => exc.type = "BadReportError"

\* the fields of a list are in the order of STANDARD_FIELDS, none twice
CanonicalOrder(fields) ==
    /\ \A i \in 1..Len(fields) : fields[i] \in FieldNames
    /\ \A i, j \in 1..Len(fields) : i < j => FieldIndex(fields[i]) < FieldIndex(fields[j])

\* C5 as stated: get_fields_present returns the canonical fields whose value
\* in the sample is present and not the empty string, in canonical order.
C5_PresentAndNonEmpty ==
    result.fn = "get_fields_present"
        => /\ CanonicalOrder(result.fields)
           /\ \A f \in FieldNames :
                 InSeq(f, result.fields) <=> (sample[f].t = "str" /\ sample[f].s # << >>)

\* C5 amended: get_fields_present returns the canonical fields whose value in
\* the sample is not None, the empty string included, in canonical order; a
\* sample with every canonical field yields the whole of STANDARD_FIELDS.
C5_PresentIsNotNone ==
    result.fn = "get_fields_present"
        => /\ CanonicalOrder(result.fields)
           /\ \A f \in FieldNames : InSeq(f, result.fields) <=> sample[f].t = "str"
           /\ (\A f \in FieldNames : sample[f].t = "str") => result.fields = STANDARD_FIELDS

C5_Witness ==
    /\ result.fn = "get_fields_present"
    /\ \E f, g \in FieldNames :
          /\ sample[f] = PyStr(<< >>) /\ InSeq(f, result.fields)
          /\ sample[g] = None /\ ~InSeq(g, result.fields)

\* the text get_time_format looks at: Created if not empty, else Modified
TimeTextOf(row) ==
    IF row["Created"].t = "str" /\ row["Created"].s # << >> THEN row["Created"]
    ELSE IF row["Modified"].t = "str" /\ row["Modified"].s # << >> THEN row["Modified"]
    ELSE None

ParsingFormats(text) == {i \in 1..Len(TIME_FORMATS) : strptime(text, TIME_FORMATS[i]).ok}

\* C6: get_time_format looks at Created if it is not empty and at Modified
\* otherwise; it returns the first of TIME_FORMATS that parses that text, None
\* if both are missing or empty, and raises BadReportError if no format
\* parses the text.
C6_FirstMatchingFormat ==
    result.fn = "get_time_format"
        => IF TimeTextOf(sample) = None
           THEN result.exc = "none" /\ result.val = None
           ELSE IF ParsingFormats(TimeTextOf(sample).s) = {}
                THEN result.exc = "BadReportError"
                ELSE /\ result.exc = "none"
                     /\ \E i \in ParsingFormats(TimeTextOf(sample).s) :
                           /\ \A j \in ParsingFormats(TimeTextOf(sample).s) : i <= j
                           /\ result.val = PyStr(TIME_FORMATS[i])

C6_Witness ==
    /\ result.fn = "get_time_format"
    /\ sample["Created"] = PyStr(<< >>)
    /\ sample["Modified"] = PyStr(T_US12)
    /\ result.exc = "none"
    /\ result.val = PyStr(TIME_FORMATS[7])

\* C7: clean_ticket_dict never fails because of ID: a missing, empty or
\* non-integer ID becomes 0, any other the integer it denotes.
C7_IdNeverFailsTheRow ==
    result.fn = "clean_ticket_dict"
        => /\ result.at # "ID"
           /\ result.exc = "none"
                 => result.row["ID"] =
                       (IF sample["ID"].t = "str" /\ IntParse(sample["ID"].s).ok
                        THEN PyInt(IntParse(sample["ID"].s).val)
                        ELSE PyInt(0))

\* C8: when --weeks (0 included) and --termend are both given, the program
\* halts in check_options: it goes no further, no report is opened and no
\* aggregation is invoked.
C8_WeeksAndTermendHaltBeforeLoad ==
    (args.weeks.t # "None" /\ args.termend.t # "None")
        => /\ pc \in {"main", "check_options", "exited"}
           /\ handles.init = "unopened"
           /\ handles.populate = "unopened"
           /\ calls = << >>

\* the fields a query depends on are in fields_present
QueryLegal(fn) ==
    CASE fn = "per_week" -> InSeq("Created", report.fields_present)
      [] fn = "per_building" -> InSeq("Class Support Building", report.fields_present)
      [] fn = "per_room" -> /\ InSeq("Class Support Building", report.fields_present)
                            /\ InSeq("Room number", report.fields_present)
      [] OTHER -> FALSE

QueryStage(fn) ==
    CASE fn = "per_week" -> pc = "query_week" /\ args.perweek
      [] fn = "per_building" -> pc = "query_building" /\ args.perbuilding
      [] fn = "per_room" -> pc = "query_room" /\ args.perroom
      [] OTHER -> FALSE

\* C9: every step of main that invokes an aggregation invokes one whose
\* fields are in fields_present, and the step that reaches a requested query
\* whose fields are not all there exits with status 1 and invokes nothing.
C9_QueriesGatedByFieldsPresent ==
    [][ /\ calls' # calls
            => /\ Len(calls') = Len(calls) + 1
               /\ QueryLegal(calls'[Len(calls')].fn)
               /\ QueryStage(calls'[Len(calls')].fn)
        /\ \A fn \in {"per_week", "per_building", "per_room"} :
              (QueryStage(fn) /\ ~QueryLegal(fn))
                  => (pc' = "exited" /\ exit_status' = 1 /\ calls' = calls) ]_vars

C9_Witness ==
    /\ pc = "exited"
    /\ exit_status = 1
    /\ args.perroom
    /\ args.building = BuildingObj(S_HallA)
    /\ handles.populate = "closed"
    /\ InSeq("Class Support Building", report.fields_present)
    /\ ~InSeq("Room number", report.fields_present)
    /\ calls = << >>

\* C10: per_room is invoked only after populate has returned without error
\* and only with a building that find_building has resolved to a Building of
\* the Organization; a --perroom run whose building is missing, empty or not
\* found never reaches the queries.
C10_PerRoomOnlyWithResolvedBuilding ==
    /\ \A i \in 1..Len(calls) :
          calls[i].fn = "per_room"
              => /\ handles.populate = "closed"
                 /\ exc = NoExc
                 /\ calls[i].args.building.t = "Building"
                 /\ calls[i].args.building.s \in org.buildings
    /\ (args.perroom /\ pc \in {"query_week", "query_building", "query_room", "done"})
          => (args.building.t = "Building" /\ args.building.s \in org.buildings)

C10_Witness ==
    /\ pc = "done"
    /\ Len(calls) = 1
    /\ calls[1].fn = "per_room"
    /\ calls[1].args.building = BuildingObj(S_HallA)
    /\ Len(org.tickets) = 2

=============================================================================
